---- MODULE Spec2Model ----
(***************************************************************************)
(* A model of the cue sheet parser of src/cuesheet.go.                     *)
(*                                                                         *)
(* Parse reads its input line by line, trims each line, skips blank and    *)
(* bare REM lines, dispatches every other line to the handler of its       *)
(* command and, at end of input, validates the accumulated document.       *)
(*                                                                         *)
(* A Go string is a sequence of bytes, and a string of the model is that   *)
(* sequence: one character for each byte, the character U+0000 to U+00FF   *)
(* of the value of the byte.  A rune above U+007F takes the characters of  *)
(* its bytes in UTF-8, so U+00E9 is the two characters of EncodeRune(\hE9),*)
(* the bytes C3 A9, and U+0131 the two of EncodeRune(\h131), C4 B1; one    *)
(* character above U+007F by itself is a byte that encodes no rune.  The   *)
(* bytes that occur are 09 to 0D, 20 to 5F, 61 to 7E and 80 to FF.  A      *)
(* character is a string of length 1 taken with SubSeq.  An int is an int  *)
(* of 64 bits; one of ten digits or more is held as its decimal digits.  A *)
(* time.Duration is counted in seconds (time.Second = 1), a uint32 is the  *)
(* pair of its 16-bit halves, a nil-able pointer is a sequence of length 0 *)
(* (nil) or 1.                                                             *)
(***************************************************************************)
EXTENDS Integers, Sequences, FiniteSets, TLC

(***************************************************************************)
(* Characters and the string functions of the Go library that Parse uses.  *)
(***************************************************************************)

\* src/cuesheet.go:17  trimChars = " " + `"` + "\t" + "\n"
trimChars == {" ", "\"", "\t", "\n"}

\* the byte 0x0B, '\v', which has no escape in a TLA+ string
verticalTab == ""

\* the bytes 0x20 to 0x5F, 0x61 to 0x7E and 0x80 to 0xFF, in order; the byte
\* 0x60 cannot stand in a TLA+ string
asciiBytes ==
    " !\"#$%&'()*+,-./0123456789:;<=>?@ABCDEFGHIJKLMNOPQRSTUVWXYZ[\\]^_"
smallBytes ==
    "abcdefghijklmnopqrstuvwxyz{|}~"
highBytes ==
    " ¡¢£¤¥¦§¨©ª«¬­®¯°±²³´µ¶·¸¹º»¼½¾¿ÀÁÂÃÄÅÆÇÈÉÊËÌÍÎÏÐÑÒÓÔÕÖ×ØÙÚÛÜÝÞßàáâãäåæçèéêëìíîïðñòóôõö÷øùúûüýþÿ"

decimalDigits == "0123456789"
hexadecimalDigits == "0123456789abcdefABCDEF"

CharAt(s, i) == SubSeq(s, i, i)

\* 0 when ch does not occur in str, else its first position
IndexOf(ch, str) ==
    IF \E i \in 1..Len(str) : CharAt(str, i) = ch
    THEN CHOOSE i \in 1..Len(str) :
            CharAt(str, i) = ch /\ \A j \in 1..(i - 1) : CharAt(str, j) # ch
    ELSE 0

\* the characters of str
CharsOf(str) == {CharAt(str, i) : i \in 1..Len(str)}

\* the value of each decimal and of each hexadecimal digit, tabulated
DigitValues == [ch \in CharsOf(decimalDigits) |-> IndexOf(ch, decimalDigits) - 1]
HexDigitValues ==
    [ch \in CharsOf(hexadecimalDigits) |->
        IF IndexOf(ch, hexadecimalDigits) <= 16
        THEN IndexOf(ch, hexadecimalDigits) - 1
        ELSE IndexOf(ch, hexadecimalDigits) - 7]

\* the position of ch in str, a string of distinct characters that holds ch
PositionIn(ch, str) == CHOOSE i \in 1..Len(str) : CharAt(str, i) = ch

\* the value of each byte, tabulated
byteValues ==
    [ch \in CharsOf(asciiBytes) |-> \h1F + PositionIn(ch, asciiBytes)]
    @@ [ch \in CharsOf(smallBytes) |-> \h60 + PositionIn(ch, smallBytes)]
    @@ [ch \in CharsOf(highBytes) |-> \h7F + PositionIn(ch, highBytes)]
    @@ ("\t" :> \h09 @@ "\n" :> \h0A @@ verticalTab :> \h0B @@ "\f" :> \h0C
        @@ "\r" :> \h0D)

\* the value of the byte ch, and the byte of the value n
ByteOf(ch) == byteValues[ch]
Byte(n) ==
    CASE n \in \h20..\h5F -> CharAt(asciiBytes, n - \h1F)
      [] n \in \h61..\h7E -> CharAt(smallBytes, n - \h60)
      [] n \in \h80..\hFF -> CharAt(highBytes, n - \h7F)
      [] n = \h09 -> "\t"
      [] n = \h0A -> "\n"
      [] n = \h0B -> verticalTab
      [] n = \h0C -> "\f"
      [] n = \h0D -> "\r"

\* len(s): the number of bytes of s
len(s) == Len(s)

IsDigit(ch) == ch \in DOMAIN DigitValues
IsHexDigit(ch) == ch \in DOMAIN HexDigitValues
DigitVal(ch) == DigitValues[ch]
HexDigitVal(ch) == HexDigitValues[ch]

\* strings.Trim(s, trimChars)
RECURSIVE TrimLeft(_)
TrimLeft(s) ==
    IF Len(s) > 0 /\ CharAt(s, 1) \in trimChars
    THEN TrimLeft(SubSeq(s, 2, Len(s)))
    ELSE s

RECURSIVE TrimRight(_)
TrimRight(s) ==
    IF Len(s) > 0 /\ CharAt(s, Len(s)) \in trimChars
    THEN TrimRight(SubSeq(s, 1, Len(s) - 1))
    ELSE s

Trim(s) == TrimRight(TrimLeft(s))

\* a rune: its code point and the number of bytes it was decoded from
Rune(value, size) == [value |-> value, size |-> size]

\* utf8.DecodeRuneInString(s[i:]), as the range over a string and
\* strings.Fields decode: the rune that the bytes from position i on encode, or
\* utf8.RuneError (U+FFFD) of size 1 when they are no encoding of a rune.  A
\* byte past the end of s counts as 0.
ByteAt(s, i) == IF i <= Len(s) THEN ByteOf(CharAt(s, i)) ELSE 0

IsCont(b) == b \in \h80..\hBF

DecodeBytes(b1, b2, b3, b4) ==
    IF b1 < \h80 THEN Rune(b1, 1)
    ELSE IF b1 \in \hC2..\hDF /\ IsCont(b2)
    THEN Rune((b1 - \hC0) * 64 + (b2 - \h80), 2)
    ELSE IF /\ b1 \in \hE0..\hEF
            /\ b2 \in (IF b1 = \hE0 THEN \hA0..\hBF
                       ELSE IF b1 = \hED THEN \h80..\h9F ELSE \h80..\hBF)
            /\ IsCont(b3)
    THEN Rune((b1 - \hE0) * 4096 + (b2 - \h80) * 64 + (b3 - \h80), 3)
    ELSE IF /\ b1 \in \hF0..\hF4
            /\ b2 \in (IF b1 = \hF0 THEN \h90..\hBF
                       ELSE IF b1 = \hF4 THEN \h80..\h8F ELSE \h80..\hBF)
            /\ IsCont(b3)
            /\ IsCont(b4)
    THEN Rune((b1 - \hF0) * 262144 + (b2 - \h80) * 4096 + (b3 - \h80) * 64
                + (b4 - \h80), 4)
    ELSE Rune(\hFFFD, 1)

DecodeRune(s, i) ==
    IF ByteAt(s, i) < \h80 THEN Rune(ByteAt(s, i), 1)
    ELSE DecodeBytes(ByteAt(s, i), ByteAt(s, i + 1), ByteAt(s, i + 2),
                     ByteAt(s, i + 3))

\* utf8.EncodeRune: the bytes of the rune r, a code point that is no surrogate
EncodeRune(r) ==
    IF r < \h80 THEN Byte(r)
    ELSE IF r < \h800 THEN Byte(\hC0 + (r \div 64)) \o Byte(\h80 + (r % 64))
    ELSE IF r < \h10000
    THEN Byte(\hE0 + (r \div 4096)) \o Byte(\h80 + ((r \div 64) % 64))
            \o Byte(\h80 + (r % 64))
    ELSE Byte(\hF0 + (r \div 262144)) \o Byte(\h80 + ((r \div 4096) % 64))
            \o Byte(\h80 + ((r \div 64) % 64)) \o Byte(\h80 + (r % 64))

\* NEL (U+0085) and NBSP (U+00A0), of two bytes each
nextLine == EncodeRune(\h85)
noBreakSpace == EncodeRune(\hA0)

\* unicode.IsSpace, as used by strings.Fields: '\t', '\n', '\v', '\f', '\r',
\* ' ', U+0085, U+00A0 and the runes above U+00FF of the property White_Space
IsSpace(r) ==
    \/ r \in {\h09, \h0A, \h0B, \h0C, \h0D, \h20, \h85, \hA0}
    \/ r \in {\h1680, \h2028, \h2029, \h202F, \h205F, \h3000}
    \/ r \in \h2000..\h200A

\* unicode.CaseRanges, the mapping to upper case of the runes above U+007F that
\* are not their own upper case (Unicode 15.0, the tables of Go 1.22): the
\* runes lo, lo + stride, ... up to hi have the upper case rune + delta.  Each
\* element is <<lo, hi, stride, delta>>.
CaseRanges == {
    <<\hB5, \hB5, 1, 743>>, <<\hE0, \hF6, 1, -32>>, <<\hF8, \hFE, 1, -32>>,
    <<\hFF, \hFF, 1, 121>>, <<\h101, \h12F, 2, -1>>, <<\h131, \h131, 1, -232>>,
    <<\h133, \h137, 2, -1>>, <<\h13A, \h148, 2, -1>>, <<\h14B, \h177, 2, -1>>,
    <<\h17A, \h17E, 2, -1>>, <<\h17F, \h17F, 1, -300>>, <<\h180, \h180, 1, 195>>,
    <<\h183, \h185, 2, -1>>, <<\h188, \h188, 1, -1>>, <<\h18C, \h18C, 1, -1>>,
    <<\h192, \h192, 1, -1>>, <<\h195, \h195, 1, 97>>, <<\h199, \h199, 1, -1>>,
    <<\h19A, \h19A, 1, 163>>, <<\h19E, \h19E, 1, 130>>, <<\h1A1, \h1A5, 2, -1>>,
    <<\h1A8, \h1A8, 1, -1>>, <<\h1AD, \h1AD, 1, -1>>, <<\h1B0, \h1B0, 1, -1>>,
    <<\h1B4, \h1B6, 2, -1>>, <<\h1B9, \h1B9, 1, -1>>, <<\h1BD, \h1BD, 1, -1>>,
    <<\h1BF, \h1BF, 1, 56>>, <<\h1C5, \h1C5, 1, -1>>, <<\h1C6, \h1C6, 1, -2>>,
    <<\h1C8, \h1C8, 1, -1>>, <<\h1C9, \h1C9, 1, -2>>, <<\h1CB, \h1CB, 1, -1>>,
    <<\h1CC, \h1CC, 1, -2>>, <<\h1CE, \h1DC, 2, -1>>, <<\h1DD, \h1DD, 1, -79>>,
    <<\h1DF, \h1EF, 2, -1>>, <<\h1F2, \h1F2, 1, -1>>, <<\h1F3, \h1F3, 1, -2>>,
    <<\h1F5, \h1F5, 1, -1>>, <<\h1F9, \h21F, 2, -1>>, <<\h223, \h233, 2, -1>>,
    <<\h23C, \h23C, 1, -1>>, <<\h23F, \h240, 1, 10815>>, <<\h242, \h242, 1, -1>>,
    <<\h247, \h24F, 2, -1>>, <<\h250, \h250, 1, 10783>>, <<\h251, \h251, 1, 10780>>,
    <<\h252, \h252, 1, 10782>>, <<\h253, \h253, 1, -210>>, <<\h254, \h254, 1, -206>>,
    <<\h256, \h257, 1, -205>>, <<\h259, \h259, 1, -202>>, <<\h25B, \h25B, 1, -203>>,
    <<\h25C, \h25C, 1, 42319>>, <<\h260, \h260, 1, -205>>, <<\h261, \h261, 1, 42315>>,
    <<\h263, \h263, 1, -207>>, <<\h265, \h265, 1, 42280>>, <<\h266, \h266, 1, 42308>>,
    <<\h268, \h268, 1, -209>>, <<\h269, \h269, 1, -211>>, <<\h26A, \h26A, 1, 42308>>,
    <<\h26B, \h26B, 1, 10743>>, <<\h26C, \h26C, 1, 42305>>, <<\h26F, \h26F, 1, -211>>,
    <<\h271, \h271, 1, 10749>>, <<\h272, \h272, 1, -213>>, <<\h275, \h275, 1, -214>>,
    <<\h27D, \h27D, 1, 10727>>, <<\h280, \h280, 1, -218>>, <<\h282, \h282, 1, 42307>>,
    <<\h283, \h283, 1, -218>>, <<\h287, \h287, 1, 42282>>, <<\h288, \h288, 1, -218>>,
    <<\h289, \h289, 1, -69>>, <<\h28A, \h28B, 1, -217>>, <<\h28C, \h28C, 1, -71>>,
    <<\h292, \h292, 1, -219>>, <<\h29D, \h29D, 1, 42261>>, <<\h29E, \h29E, 1, 42258>>,
    <<\h345, \h345, 1, 84>>, <<\h371, \h373, 2, -1>>, <<\h377, \h377, 1, -1>>,
    <<\h37B, \h37D, 1, 130>>, <<\h3AC, \h3AC, 1, -38>>, <<\h3AD, \h3AF, 1, -37>>,
    <<\h3B1, \h3C1, 1, -32>>, <<\h3C2, \h3C2, 1, -31>>, <<\h3C3, \h3CB, 1, -32>>,
    <<\h3CC, \h3CC, 1, -64>>, <<\h3CD, \h3CE, 1, -63>>, <<\h3D0, \h3D0, 1, -62>>,
    <<\h3D1, \h3D1, 1, -57>>, <<\h3D5, \h3D5, 1, -47>>, <<\h3D6, \h3D6, 1, -54>>,
    <<\h3D7, \h3D7, 1, -8>>, <<\h3D9, \h3EF, 2, -1>>, <<\h3F0, \h3F0, 1, -86>>,
    <<\h3F1, \h3F1, 1, -80>>, <<\h3F2, \h3F2, 1, 7>>, <<\h3F3, \h3F3, 1, -116>>,
    <<\h3F5, \h3F5, 1, -96>>, <<\h3F8, \h3F8, 1, -1>>, <<\h3FB, \h3FB, 1, -1>>,
    <<\h430, \h44F, 1, -32>>, <<\h450, \h45F, 1, -80>>, <<\h461, \h481, 2, -1>>,
    <<\h48B, \h4BF, 2, -1>>, <<\h4C2, \h4CE, 2, -1>>, <<\h4CF, \h4CF, 1, -15>>,
    <<\h4D1, \h52F, 2, -1>>, <<\h561, \h586, 1, -48>>, <<\h10D0, \h10FA, 1, 3008>>,
    <<\h10FD, \h10FF, 1, 3008>>, <<\h13F8, \h13FD, 1, -8>>, <<\h1C80, \h1C80, 1, -6254>>,
    <<\h1C81, \h1C81, 1, -6253>>, <<\h1C82, \h1C82, 1, -6244>>, <<\h1C83, \h1C84, 1, -6242>>,
    <<\h1C85, \h1C85, 1, -6243>>, <<\h1C86, \h1C86, 1, -6236>>, <<\h1C87, \h1C87, 1, -6181>>,
    <<\h1C88, \h1C88, 1, 35266>>, <<\h1D79, \h1D79, 1, 35332>>, <<\h1D7D, \h1D7D, 1, 3814>>,
    <<\h1D8E, \h1D8E, 1, 35384>>, <<\h1E01, \h1E95, 2, -1>>, <<\h1E9B, \h1E9B, 1, -59>>,
    <<\h1EA1, \h1EFF, 2, -1>>, <<\h1F00, \h1F07, 1, 8>>, <<\h1F10, \h1F15, 1, 8>>,
    <<\h1F20, \h1F27, 1, 8>>, <<\h1F30, \h1F37, 1, 8>>, <<\h1F40, \h1F45, 1, 8>>,
    <<\h1F51, \h1F57, 2, 8>>, <<\h1F60, \h1F67, 1, 8>>, <<\h1F70, \h1F71, 1, 74>>,
    <<\h1F72, \h1F75, 1, 86>>, <<\h1F76, \h1F77, 1, 100>>, <<\h1F78, \h1F79, 1, 128>>,
    <<\h1F7A, \h1F7B, 1, 112>>, <<\h1F7C, \h1F7D, 1, 126>>, <<\h1F80, \h1F87, 1, 8>>,
    <<\h1F90, \h1F97, 1, 8>>, <<\h1FA0, \h1FA7, 1, 8>>, <<\h1FB0, \h1FB1, 1, 8>>,
    <<\h1FB3, \h1FB3, 1, 9>>, <<\h1FBE, \h1FBE, 1, -7205>>, <<\h1FC3, \h1FC3, 1, 9>>,
    <<\h1FD0, \h1FD1, 1, 8>>, <<\h1FE0, \h1FE1, 1, 8>>, <<\h1FE5, \h1FE5, 1, 7>>,
    <<\h1FF3, \h1FF3, 1, 9>>, <<\h214E, \h214E, 1, -28>>, <<\h2170, \h217F, 1, -16>>,
    <<\h2184, \h2184, 1, -1>>, <<\h24D0, \h24E9, 1, -26>>, <<\h2C30, \h2C5F, 1, -48>>,
    <<\h2C61, \h2C61, 1, -1>>, <<\h2C65, \h2C65, 1, -10795>>, <<\h2C66, \h2C66, 1, -10792>>,
    <<\h2C68, \h2C6C, 2, -1>>, <<\h2C73, \h2C73, 1, -1>>, <<\h2C76, \h2C76, 1, -1>>,
    <<\h2C81, \h2CE3, 2, -1>>, <<\h2CEC, \h2CEE, 2, -1>>, <<\h2CF3, \h2CF3, 1, -1>>,
    <<\h2D00, \h2D25, 1, -7264>>, <<\h2D27, \h2D27, 1, -7264>>, <<\h2D2D, \h2D2D, 1, -7264>>,
    <<\hA641, \hA66D, 2, -1>>, <<\hA681, \hA69B, 2, -1>>, <<\hA723, \hA72F, 2, -1>>,
    <<\hA733, \hA76F, 2, -1>>, <<\hA77A, \hA77C, 2, -1>>, <<\hA77F, \hA787, 2, -1>>,
    <<\hA78C, \hA78C, 1, -1>>, <<\hA791, \hA793, 2, -1>>, <<\hA794, \hA794, 1, 48>>,
    <<\hA797, \hA7A9, 2, -1>>, <<\hA7B5, \hA7C3, 2, -1>>, <<\hA7C8, \hA7CA, 2, -1>>,
    <<\hA7D1, \hA7D1, 1, -1>>, <<\hA7D7, \hA7D9, 2, -1>>, <<\hA7F6, \hA7F6, 1, -1>>,
    <<\hAB53, \hAB53, 1, -928>>, <<\hAB70, \hABBF, 1, -38864>>, <<\hFF41, \hFF5A, 1, -32>>,
    <<\h10428, \h1044F, 1, -40>>, <<\h104D8, \h104FB, 1, -40>>, <<\h10597, \h105A1, 1, -39>>,
    <<\h105A3, \h105B1, 1, -39>>, <<\h105B3, \h105B9, 1, -39>>, <<\h105BB, \h105BC, 1, -39>>,
    <<\h10CC0, \h10CF2, 1, -64>>, <<\h118C0, \h118DF, 1, -32>>, <<\h16E60, \h16E7F, 1, -32>>,
    <<\h1E922, \h1E943, 1, -34>>
}

\* the ranges of CaseRanges that hold r
CaseRangesOf(r) ==
    {cr \in CaseRanges : cr[1] <= r /\ r <= cr[2] /\ (r - cr[1]) % cr[3] = 0}

\* unicode.ToUpper.  U+0131 (dotless i) and U+017F (long s) are the two runes
\* outside ASCII whose upper case is an ASCII letter.
UpperRune(r) ==
    IF r < \h80 THEN (IF r \in \h61..\h7A THEN r - 32 ELSE r)
    ELSE IF CaseRangesOf(r) = {} THEN r
    ELSE r + (CHOOSE cr \in CaseRangesOf(r) : TRUE)[4]

\* The byte at position i of s is part of a rune that starts before i.  The
\* first byte of an encoding of 2 to 4 bytes is no continuation byte, so
\* decoding s rune by rune from its start comes to every such first byte: the
\* runes of s start at the positions that are not Inside.
Inside(s, i) ==
    \E j \in {i - 3, i - 2, i - 1} : j >= 1 /\ DecodeRune(s, j).size > i - j

\* the bytes that strings.Map(unicode.ToUpper, s) writes for the rune r decoded
\* at position i: a rune that is its own upper case keeps its bytes, a byte
\* that is no encoding of a rune becomes the bytes of utf8.RuneError
MapRune(s, i, r) ==
    IF UpperRune(r.value) = r.value /\ ~(r.value = \hFFFD /\ r.size = 1)
    THEN SubSeq(s, i, i + r.size - 1)
    ELSE EncodeRune(UpperRune(r.value))

\* strings.Map(unicode.ToUpper, s) from byte i on, b the byte at i
RECURSIVE MapToUpper(_, _)
MapByte(s, i, ch, b) ==
    (IF b < \h80
     THEN (IF b \in \h61..\h7A THEN Byte(b - 32) ELSE ch)
     ELSE IF IsCont(b) /\ Inside(s, i) THEN ""
     ELSE MapRune(s, i, DecodeRune(s, i)))
        \o MapToUpper(s, i + 1)

MapToUpper(s, i) ==
    IF i > Len(s) THEN "" ELSE MapByte(s, i, CharAt(s, i), ByteOf(CharAt(s, i)))

\* strings.ToUpper
ToUpper(s) == MapToUpper(s, 1)

\* the byte b at position i of s is a byte of a rune of white space
SpaceAt(s, i, b) ==
    IF b < \h80 THEN IsSpace(b)
    ELSE \E j \in (i - 3)..i :
            /\ j >= 1
            /\ DecodeRune(s, j).size > i - j
            /\ IsSpace(DecodeRune(s, j).value)

\* strings.Fields: the maximal runs of runes that are no white space, in order
RECURSIVE FieldsFrom(_, _, _)
FieldsFrom(s, i, cur) ==
    IF i > Len(s)
    THEN IF cur = "" THEN <<>> ELSE <<cur>>
    ELSE IF SpaceAt(s, i, ByteAt(s, i))
         THEN (IF cur = "" THEN <<>> ELSE <<cur>>) \o FieldsFrom(s, i + 1, "")
         ELSE FieldsFrom(s, i + 1, cur \o CharAt(s, i))

Fields(s) == FieldsFrom(s, 1, "")

\* strings.Join(parts, " ")
RECURSIVE Join(_)
Join(parts) ==
    IF Len(parts) = 0 THEN ""
    ELSE IF Len(parts) = 1 THEN parts[1]
    ELSE parts[1] \o " " \o Join(Tail(parts))

\* the value of a string of decimal digits
RECURSIVE DecVal(_)
DecVal(s) ==
    IF Len(s) = 0 THEN 0
    ELSE DecVal(SubSeq(s, 1, Len(s) - 1)) * 10 + DigitVal(CharAt(s, Len(s)))

\* the value of a string of hexadecimal digits
RECURSIVE HexVal(_)
HexVal(s) ==
    IF Len(s) = 0 THEN 0
    ELSE HexVal(SubSeq(s, 1, Len(s) - 1)) * 16 + HexDigitVal(CharAt(s, Len(s)))

AllDigits(s) == \A i \in 1..Len(s) : IsDigit(CharAt(s, i))

\* the digits of s from its first digit that is not 0 on, or its last digit
RECURSIVE Significant(_)
Significant(s) ==
    IF Len(s) > 1 /\ CharAt(s, 1) = "0" THEN Significant(SubSeq(s, 2, Len(s))) ELSE s

\* a <= b, for the strings a and b of decimal digits of one length
RECURSIVE DigitsLeq(_, _)
DigitsLeq(a, b) ==
    IF Len(a) = 0 THEN TRUE
    ELSE IF CharAt(a, 1) # CharAt(b, 1)
    THEN DigitVal(CharAt(a, 1)) < DigitVal(CharAt(b, 1))
    ELSE DigitsLeq(SubSeq(a, 2, Len(a)), SubSeq(b, 2, Len(b)))

\* the greatest int, 1<<63 - 1, and the magnitude of the least, 1<<63
maxInt == "9223372036854775807"
minInt == "9223372036854775808"

\* strconv.Atoi: the number of the significant digits sig is in the range of
\* int
InRange(sig, neg) ==
    \/ Len(sig) < Len(maxInt)
    \/ Len(sig) = Len(maxInt) /\ DigitsLeq(sig, IF neg THEN minInt ELSE maxInt)

\* an int: big is FALSE and val the number when its magnitude is below 10^9,
\* else big is TRUE and val its decimal digits, with "-" when negative
SmallInt(n) == [ok |-> TRUE, big |-> FALSE, val |-> n]
BigInt(digits) == [ok |-> TRUE, big |-> TRUE, val |-> digits]
NoInt == [ok |-> FALSE, big |-> FALSE, val |-> 0]

\* an int of the sign and the significant digits given
IntOf(sig, neg) ==
    IF Len(sig) > 9 THEN BigInt((IF neg THEN "-" ELSE "") \o sig)
    ELSE SmallInt(IF neg THEN 0 - DecVal(sig) ELSE DecVal(sig))

\* n == k, n != k and n > k for an int n and a number k below 10^9
IntEq(n, k) == ~n.big /\ n.val = k
IntNeq(n, k) == n.big \/ n.val # k
IntGt(n, k) == IF n.big THEN CharAt(n.val, 1) # "-" ELSE n.val > k

\* strconv.Atoi of the digits body after the sign
AtoiDigits(body, neg) ==
    IF Len(body) = 0 \/ ~AllDigits(body) THEN NoInt
    ELSE IF ~InRange(Significant(body), neg) THEN NoInt
    ELSE IntOf(Significant(body), neg)

\* strconv.Atoi: an optional sign followed by one or more decimal digits, of
\* a number in the range of int
Atoi(s) ==
    IF Len(s) > 0 /\ CharAt(s, 1) \in {"+", "-"}
    THEN AtoiDigits(SubSeq(s, 2, Len(s)), CharAt(s, 1) = "-")
    ELSE AtoiDigits(s, FALSE)

\* the length of the longest run of characters of s from position i on that
\* satisfy the digit test and end before position lim
RECURSIVE RunLen(_, _, _, _)
RunLen(s, i, lim, hex) ==
    IF i > Len(s) \/ i >= lim THEN 0
    ELSE IF (IF hex THEN IsHexDigit(CharAt(s, i)) ELSE IsDigit(CharAt(s, i)))
         THEN 1 + RunLen(s, i + 1, lim, hex)
         ELSE 0

\* a scanned number: whether the scan succeeded, the value, and the position
\* of the character after the number
Scanned(ok, val, next) == [ok |-> ok, val |-> val, next |-> next]
NotScanned == Scanned(FALSE, 0, 0)

\* the number made of the n digits of s from position j on, negated if neg
ScanDigits(s, j, n, neg) ==
    IF n = 0 THEN NotScanned
    ELSE Scanned(TRUE,
                 IF neg THEN 0 - DecVal(SubSeq(s, j, j + n - 1))
                 ELSE DecVal(SubSeq(s, j, j + n - 1)),
                 j + n)

\* one %2d of fmt.Sscanf starting at position i: an optional sign and then
\* digits, at most two characters in all
ScanInt2(s, i) ==
    LET signed == i <= Len(s) /\ CharAt(s, i) \in {"+", "-"}
        j      == IF signed THEN i + 1 ELSE i
    IN  ScanDigits(s, j, RunLen(s, j, i + 2, FALSE), signed /\ CharAt(s, i) = "-")

\* the %2d that follows the number r and a colon
ScanNext(s, r) ==
    IF r.ok /\ r.next <= Len(s) /\ CharAt(s, r.next) = ":"
    THEN ScanInt2(s, r.next + 1)
    ELSE NotScanned

Timestamp(ok, minutes, seconds, frames) ==
    [ok |-> ok, minutes |-> minutes, seconds |-> seconds, frames |-> frames]

ScanFrames(m, sc, f) ==
    IF f.ok THEN Timestamp(TRUE, m.val, sc.val, f.val) ELSE Timestamp(FALSE, 0, 0, 0)

ScanSeconds(s, m, sc) == ScanFrames(m, sc, ScanNext(s, sc))

\* fmt.Sscanf(s, "%2d:%2d:%2d", &minutes, &seconds, &frames); input left over
\* after the third number is not an error
ScanTimestamp(s) == ScanSeconds(s, ScanInt2(s, 1), ScanNext(s, ScanInt2(s, 1)))

\* a uint32 as the pair of its halves: 65536 * hi + lo
Uint32(hi, lo) == [hi |-> hi, lo |-> lo]

\* the value of the n > 0 hexadecimal digits that s starts with, n <= 8
HexPrefix(s, n) ==
    IF n > 4
    THEN Uint32(HexVal(SubSeq(s, 1, n - 4)), HexVal(SubSeq(s, n - 3, n)))
    ELSE Uint32(0, HexVal(SubSeq(s, 1, n)))

ScanHexDigits(s, n) ==
    IF n = 0 THEN [ok |-> FALSE, val |-> Uint32(0, 0)]
    ELSE [ok |-> TRUE, val |-> HexPrefix(s, n)]

\* fmt.Sscanf(s, "%X", &discID) on a string of at most 8 characters: the
\* longest prefix of hexadecimal digits, which must not be empty
ScanHex(s) == ScanHexDigits(s, RunLen(s, 1, Len(s) + 1, TRUE))

(***************************************************************************)
(* The document and its parts.                                             *)
(***************************************************************************)

\* src/cuesheet.go:70-78  the audio formats FILE accepts
AudioFormats == {"WAVE", "MP3", "AIFF", "BINARY", "MOTOROLA"}

\* src/cuesheet.go:36-39  IndexPoint, and its zero value
IndexPoint(frame, timestamp) == [Frame |-> frame, Timestamp |-> timestamp]
ZeroIndexPoint == IndexPoint(0, 0)

\* src/cuesheet.go:49-54  Track; `var track Track` is its zero value
ZeroTrack == [Title |-> "", Type |-> "", Index00 |-> <<>>, Index01 |-> ZeroIndexPoint]

\* src/cuesheet.go:83  c := &CueSheet{Tracks: []*Track{}}
NewCueSheet ==
    [AlbumPerformer |-> "", AlbumTitle |-> "", Remarks |-> <<>>, Date |-> "",
     DiscID |-> Uint32(0, 0), Format |-> "", FileName |-> "", Genre |-> "",
     Tracks |-> <<>>]

\* src/cuesheet.go:26-34  the commands and their parameter counts
Command(name, exact, min) == [Name |-> name, ExactParams |-> exact, MinParams |-> min]
FileCommand == Command("FILE", 0, 2)
PerformerCommand == Command("PERFORMER", 0, 1)
TitleCommand == Command("TITLE", 0, 1)
TrackCommand == Command("TRACK", 2, 0)
TrackIndexCommand == Command("INDEX", 2, 0)
RemCommand == Command("REM", 0, 1)
RemGenreCommand == Command("GENRE", 0, 1)
RemDateCommand == Command("DATE", 0, 1)
RemDiscIDCommand == Command("DISCID", 1, 0)

(***************************************************************************)
(* Errors.  An error is the innermost cause of Go's wrapped error chain:   *)
(* the text of its message and the values formatted into it.  A runtime    *)
(* panic is the error of kind Panic.                                       *)
(***************************************************************************)
Err(kind, args) == [kind |-> kind, args |-> args]
Nil == Err("", <<>>)
IsErr(e) == e.kind # ""
Panic == "panic: index out of range"
AlreadySet == "field already set"

\* the result of a handler: the document as the handler leaves it, and its error
Out(doc, e) == [c |-> doc, err |-> e]

\* src/cuesheet.go:327-335
validateParameters(cmd, parameters) ==
    IF cmd.ExactParams > 0 /\ parameters # cmd.ExactParams
    THEN Err("expected N parameters", <<cmd.ExactParams, parameters>>)
    ELSE IF cmd.MinParams > 0 /\ parameters < cmd.MinParams
    THEN Err("expected at least N parameters", <<cmd.MinParams, parameters>>)
    ELSE Nil

\* src/cuesheet.go:130-137  the field after the call, and the error
assignValue(val, field, zero) ==
    IF field # zero
    THEN [field |-> field, err |-> Err(AlreadySet, <<field>>)]
    ELSE [field |-> val, err |-> Nil]

\* src/cuesheet.go:139-142
parseString(val, field) == assignValue(Trim(val), field, "")

(***************************************************************************)
(* The command handlers.                                                   *)
(***************************************************************************)

\* parseFile without the check of the format against the five formats
parseFile_AnyFormat(doc, parameters) ==
    LET e == validateParameters(FileCommand, Len(parameters))
    IN  IF IsErr(e) THEN Out(doc, e)
        ELSE
        LET last   == Len(parameters)
            format == parameters[last]
            a  == assignValue(format, doc.Format, "")
            d1 == [doc EXCEPT !.Format = a.field]
            b  == parseString(Join(SubSeq(parameters, 1, last - 1)), d1.FileName)
        IN  IF IsErr(a.err) THEN Out(d1, a.err)
            ELSE Out([d1 EXCEPT !.FileName = b.field], b.err)

\* src/cuesheet.go:144-163
parseFile(doc, parameters) ==
    LET e == validateParameters(FileCommand, Len(parameters))
    IN  IF IsErr(e) THEN Out(doc, e)
        ELSE
        LET last   == Len(parameters)
            format == parameters[last]
        IN  IF format \notin AudioFormats
            THEN Out(doc, Err("invalid FILE format", <<format>>))
            ELSE
            LET a  == assignValue(format, doc.Format, "")
                d1 == [doc EXCEPT !.Format = a.field]
                b  == parseString(Join(SubSeq(parameters, 1, last - 1)), d1.FileName)
            IN  IF IsErr(a.err) THEN Out(d1, a.err)
                ELSE Out([d1 EXCEPT !.FileName = b.field], b.err)

\* src/cuesheet.go:165-173
parsePerformer(doc, parameters) ==
    LET e == validateParameters(PerformerCommand, Len(parameters))
        a == parseString(Join(parameters), doc.AlbumPerformer)
    IN  IF IsErr(e) THEN Out(doc, e)
        ELSE Out([doc EXCEPT !.AlbumPerformer = a.field], a.err)

\* isNextTrack that only rejects a number already declared: gaps pass
isNextTrack_AllowsGaps(doc, nr) ==
    LET n == Atoi(nr)
        nextTrackNr == Len(doc.Tracks) + 1
    IN  IF ~n.ok THEN Err("failed to parse track number", <<nr>>)
        ELSE IF len(nr) # 2 THEN Err("expected 2 digits", <<len(nr)>>)
        ELSE IF n.val < nextTrackNr
        THEN Err("expected track number", <<nextTrackNr, n.val>>)
        ELSE Nil

\* isNextTrack without the test of the length of nr
isNextTrack_AnyLength(doc, nr) ==
    LET n == Atoi(nr)
        nextTrackNr == Len(doc.Tracks) + 1
    IN  IF ~n.ok THEN Err("failed to parse track number", <<nr>>)
        ELSE IF IntNeq(n, nextTrackNr)
        THEN Err("expected track number", <<nextTrackNr, n.val>>)
        ELSE Nil

\* isNextTrack that tests the number against the tracks before its length
isNextTrack_SequenceFirst(doc, nr) ==
    LET n == Atoi(nr)
        nextTrackNr == Len(doc.Tracks) + 1
    IN  IF ~n.ok THEN Err("failed to parse track number", <<nr>>)
        ELSE IF IntNeq(n, nextTrackNr)
        THEN Err("expected track number", <<nextTrackNr, n.val>>)
        ELSE IF len(nr) # 2 THEN Err("expected 2 digits", <<len(nr)>>)
        ELSE Nil

\* src/cuesheet.go:194-207
isNextTrack(doc, nr) ==
    LET n == Atoi(nr)
        nextTrackNr == Len(doc.Tracks) + 1
    IN  IF ~n.ok THEN Err("failed to parse track number", <<nr>>)
        ELSE IF len(nr) # 2 THEN Err("expected 2 digits", <<len(nr)>>)
        ELSE IF IntNeq(n, nextTrackNr)
        THEN Err("expected track number", <<nextTrackNr, n.val>>)
        ELSE Nil

\* parseTrack that appends the track before it validates the parameters
parseTrack_AppendsFirst(doc, parameters) ==
    LET e == validateParameters(TrackCommand, Len(parameters))
    IN  IF IsErr(e) THEN Out([doc EXCEPT !.Tracks = Append(@, ZeroTrack)], e)
        ELSE
        LET nr  == parameters[1]
            typ == parameters[2]
            e2  == isNextTrack(doc, nr)
            a   == parseString(typ, ZeroTrack.Type)
        IN  IF IsErr(e2) THEN Out(doc, e2)
            ELSE IF IsErr(a.err) THEN Out(doc, a.err)
            ELSE Out([doc EXCEPT !.Tracks = Append(@, [ZeroTrack EXCEPT !.Type = a.field])],
                     Nil)

\* src/cuesheet.go:175-192
parseTrack(doc, parameters) ==
    LET e == validateParameters(TrackCommand, Len(parameters))
    IN  IF IsErr(e) THEN Out(doc, e)
        ELSE
        LET nr  == parameters[1]
            typ == parameters[2]
            e2  == isNextTrack(doc, nr)
            a   == parseString(typ, ZeroTrack.Type)
        IN  IF IsErr(e2) THEN Out(doc, e2)
            ELSE IF IsErr(a.err) THEN Out(doc, a.err)
            ELSE Out([doc EXCEPT !.Tracks = Append(@, [ZeroTrack EXCEPT !.Type = a.field])],
                     Nil)

\* assignIndex that gives the index point to the first track
assignIndex_FirstTrack(doc, indexNr, index) ==
    LET last == Len(doc.Tracks)
    IN  IF last = 0 THEN Out(doc, Err(Panic, <<>>))
        ELSE IF indexNr = 0
        THEN LET a == assignValue(index, ZeroIndexPoint, ZeroIndexPoint)
             IN  Out([doc EXCEPT !.Tracks[1].Index00 = <<a.field>>], a.err)
        ELSE LET a == assignValue(index, doc.Tracks[1].Index01, ZeroIndexPoint)
             IN  Out([doc EXCEPT !.Tracks[1].Index01 = a.field], a.err)

\* src/cuesheet.go:230-235  the index point goes to the last track;
\* c.Tracks[len(c.Tracks)-1] of a document without tracks is out of range
assignIndex(doc, indexNr, index) ==
    LET last == Len(doc.Tracks)
    IN  IF last = 0 THEN Out(doc, Err(Panic, <<>>))
        ELSE IF indexNr = 0
        THEN \* lastTrack.Index00 = &IndexPoint{} comes before the assignment
             LET a == assignValue(index, ZeroIndexPoint, ZeroIndexPoint)
             IN  Out([doc EXCEPT !.Tracks[last].Index00 = <<a.field>>], a.err)
        ELSE LET a == assignValue(index, doc.Tracks[last].Index01, ZeroIndexPoint)
             IN  Out([doc EXCEPT !.Tracks[last].Index01 = a.field], a.err)

\* parseIndexPoint that adds the minutes to the seconds without the factor 60
parseIndexPoint_MinutesAsSeconds(doc, nr, indexPoint, indexNr, t) ==
    IF ~indexNr.ok THEN Out(doc, Err("failed to parse index number", <<nr>>))
    ELSE IF IntNeq(indexNr, 0) /\ IntNeq(indexNr, 1)
    THEN Out(doc, Err("expected index number 0 or 1", <<indexNr.val>>))
    ELSE IF ~t.ok
    THEN Out(doc, Err("error parsing timestamp and frame", <<indexPoint>>))
    ELSE assignIndex(doc, indexNr.val, IndexPoint(t.frames, t.minutes + t.seconds))

\* src/cuesheet.go:216-229  indexNr and t are the scanned nr and indexPoint
parseIndexPoint(doc, nr, indexPoint, indexNr, t) ==
    IF ~indexNr.ok THEN Out(doc, Err("failed to parse index number", <<nr>>))
    ELSE IF IntNeq(indexNr, 0) /\ IntNeq(indexNr, 1)
    THEN Out(doc, Err("expected index number 0 or 1", <<indexNr.val>>))
    ELSE IF ~t.ok
    THEN Out(doc, Err("error parsing timestamp and frame", <<indexPoint>>))
    ELSE assignIndex(doc, indexNr.val, IndexPoint(t.frames, t.minutes * 60 + t.seconds))

\* src/cuesheet.go:209-236
parseTrackIndex(doc, parameters) ==
    LET e == validateParameters(TrackIndexCommand, Len(parameters))
    IN  IF IsErr(e) THEN Out(doc, e)
        ELSE parseIndexPoint(doc, parameters[1], parameters[2],
                             Atoi(parameters[1]), ScanTimestamp(parameters[2]))

\* parseTitle that sets the album title for as long as it is unset, whether or
\* not a track has been declared
parseTitle_AlbumFirst(doc, parameters) ==
    LET e        == validateParameters(TitleCommand, Len(parameters))
        nrTracks == Len(doc.Tracks)
    IN  IF IsErr(e) THEN Out(doc, e)
        ELSE IF nrTracks = 0 \/ doc.AlbumTitle = ""
        THEN LET a == parseString(Join(parameters), doc.AlbumTitle)
             IN  Out([doc EXCEPT !.AlbumTitle = a.field], a.err)
        ELSE LET a == parseString(Join(parameters), doc.Tracks[nrTracks].Title)
             IN  Out([doc EXCEPT !.Tracks[nrTracks].Title = a.field], a.err)

\* src/cuesheet.go:238-256
parseTitle(doc, parameters) ==
    LET e        == validateParameters(TitleCommand, Len(parameters))
        nrTracks == Len(doc.Tracks)
    IN  IF IsErr(e) THEN Out(doc, e)
        ELSE IF nrTracks = 0
        THEN LET a == parseString(Join(parameters), doc.AlbumTitle)
             IN  Out([doc EXCEPT !.AlbumTitle = a.field], a.err)
        ELSE LET a == parseString(Join(parameters), doc.Tracks[nrTracks].Title)
             IN  Out([doc EXCEPT !.Tracks[nrTracks].Title = a.field], a.err)

\* src/cuesheet.go:279-287
parseDate(doc, parameters) ==
    LET e == validateParameters(RemDateCommand, Len(parameters))
        a == parseString(Join(parameters), doc.Date)
    IN  IF IsErr(e) THEN Out(doc, e)
        ELSE Out([doc EXCEPT !.Date = a.field], a.err)

\* src/cuesheet.go:298-305  h is the scanned discIDHex
assignDiscID(doc, discIDHex, h) ==
    LET a == assignValue(h.val, doc.DiscID, Uint32(0, 0))
    IN  IF ~h.ok THEN Out(doc, Err("error parsing hex string", <<discIDHex>>))
        ELSE Out([doc EXCEPT !.DiscID = a.field], a.err)

\* src/cuesheet.go:289-306
parseDiscID(doc, parameters) ==
    LET e == validateParameters(RemDiscIDCommand, Len(parameters))
    IN  IF IsErr(e) THEN Out(doc, e)
        ELSE IF len(parameters[1]) # 8
        THEN Out(doc, Err("expected 8 hex digits", <<len(parameters[1])>>))
        ELSE assignDiscID(doc, parameters[1], ScanHex(parameters[1]))

\* src/cuesheet.go:308-316
parseGenre(doc, parameters) ==
    LET e == validateParameters(RemGenreCommand, Len(parameters))
        a == parseString(Join(parameters), doc.Genre)
    IN  IF IsErr(e) THEN Out(doc, e)
        ELSE Out([doc EXCEPT !.Genre = a.field], a.err)

\* src/cuesheet.go:318-325
parseRemark(doc, parameters) ==
    LET a == parseString(Join(parameters), "")
    IN  IF IsErr(a.err) THEN Out(doc, a.err)
        ELSE Out([doc EXCEPT !.Remarks = Append(@, a.field)], Nil)

\* src/cuesheet.go:261-276  the switch of parseRem on the upper-cased command
remSwitch(doc, parameters, command) ==
    CASE command = "GENRE"   -> parseGenre(doc, Tail(parameters))
      [] command = "DATE"    -> parseDate(doc, Tail(parameters))
      [] command = "DISCID"  -> parseDiscID(doc, Tail(parameters))
      [] command = "COMMENT" -> parseRemark(doc, Tail(parameters))
      [] OTHER               -> parseRemark(doc, parameters)

\* src/cuesheet.go:258-277  parameters[0] of a REM line without parameters is
\* out of range
parseRem(doc, parameters) ==
    IF Len(parameters) = 0 THEN Out(doc, Err(Panic, <<>>))
    ELSE remSwitch(doc, parameters, ToUpper(parameters[1]))

(***************************************************************************)
(* Validation.                                                             *)
(***************************************************************************)

\* src/cuesheet.go:354-364  the index points of the tracks, in document order
RECURSIVE Indices(_)
Indices(tracks) ==
    IF Len(tracks) = 0 THEN <<>>
    ELSE tracks[1].Index00 \o <<tracks[1].Index01>> \o Indices(Tail(tracks))

\* the test with > for >=: two equal index points pass
Overlapping_EqualPasses(currIdx, nextIdx) ==
    \/ currIdx.Timestamp > nextIdx.Timestamp
    \/ currIdx.Timestamp = nextIdx.Timestamp /\ currIdx.Frame > nextIdx.Frame

\* src/cuesheet.go:373  the test that rejects the pair (currIdx, nextIdx)
Overlapping(currIdx, nextIdx) ==
    \/ currIdx.Timestamp > nextIdx.Timestamp
    \/ currIdx.Timestamp = nextIdx.Timestamp /\ currIdx.Frame >= nextIdx.Frame

\* src/cuesheet.go:368-378
validateTrackIndices(indices) ==
    LET bad == {i \in 1..(Len(indices) - 1) : Overlapping(indices[i], indices[i + 1])}
    IN  IF bad = {} THEN Nil
        ELSE LET i == CHOOSE j \in bad : \A k \in bad : j <= k
             IN  Err("overlapping indices", <<indices[i], indices[i + 1]>>)

\* src/cuesheet.go:354-366
validateTracks(doc) ==
    IF \E i \in 1..Len(doc.Tracks) : doc.Tracks[i].Type = ""
    THEN Err("missing track type", <<>>)
    ELSE validateTrackIndices(Indices(doc.Tracks))

\* src/cuesheet.go:338-352
validate(doc) ==
    IF doc.FileName = "" THEN Err("missing file name", <<>>)
    ELSE IF doc.Format = "" THEN Err("missing file format", <<>>)
    ELSE IF Len(doc.Tracks) = 0 THEN Err("missing tracks", <<>>)
    ELSE validateTracks(doc)

\* src/cuesheet.go:108-127  the switch of parseLine on name, the upper-cased
\* command
lineSwitch(doc, command, parameters, name) ==
    CASE name = FileCommand.Name       -> parseFile(doc, parameters)
      [] name = PerformerCommand.Name  -> parsePerformer(doc, parameters)
      [] name = TrackCommand.Name      -> parseTrack(doc, parameters)
      [] name = TrackIndexCommand.Name -> parseTrackIndex(doc, parameters)
      [] name = TitleCommand.Name      -> parseTitle(doc, parameters)
      [] name = RemCommand.Name        -> parseRem(doc, parameters)
      [] OTHER -> Out(doc, Err("unexpected command", <<command>>))

\* src/cuesheet.go:103-128  parseLine on the fields of a line; fields[0] of a
\* line without fields is out of range
parseLine(doc, fields) ==
    IF Len(fields) = 0 THEN Out(doc, Err(Panic, <<>>))
    ELSE lineSwitch(doc, fields[1], Tail(fields), ToUpper(fields[1]))

(***************************************************************************)
(* The fields of the document.  A field is named by the number of its      *)
(* track, 0 for the album, and its name in the source.                     *)
(***************************************************************************)
Field(track, name) == <<track, name>>

FieldValue(doc, f) ==
    IF f[1] = 0 THEN doc[f[2]] ELSE doc.Tracks[f[1]][f[2]]

\* src/cuesheet.go:144-325  the fields that the assignValue calls of the
\* handler of a line write to: name the upper-cased command, sub the upper-cased
\* command of a REM line, n the number of tracks
TargetsOf(doc, fields, name, sub, n) ==
    CASE name = FileCommand.Name -> {Field(0, "Format"), Field(0, "FileName")}
      [] name = PerformerCommand.Name -> {Field(0, "AlbumPerformer")}
      [] name = TrackCommand.Name -> {Field(n + 1, "Type")}
      [] name = TrackIndexCommand.Name /\ Len(fields) >= 2 ->
            IF Atoi(fields[2]).ok /\ IntEq(Atoi(fields[2]), 0)
            THEN {Field(n, "Index00")} ELSE {Field(n, "Index01")}
      [] name = TitleCommand.Name ->
            IF n = 0 THEN {Field(0, "AlbumTitle")} ELSE {Field(n, "Title")}
      [] name = RemCommand.Name /\ sub = RemGenreCommand.Name -> {Field(0, "Genre")}
      [] name = RemCommand.Name /\ sub = RemDateCommand.Name -> {Field(0, "Date")}
      [] name = RemCommand.Name /\ sub = RemDiscIDCommand.Name -> {Field(0, "DiscID")}
      [] OTHER -> {}

\* the fields that parsing a line into doc writes to
Targets(doc, fields) ==
    TargetsOf(doc, fields,
              IF Len(fields) = 0 THEN "" ELSE ToUpper(fields[1]),
              IF Len(fields) < 2 THEN "" ELSE ToUpper(fields[2]),
              Len(doc.Tracks))

(***************************************************************************)
(* Parse as a state machine.                                               *)
(*                                                                         *)
(* The reader supplies the lines one at a time; each step of Parse scans   *)
(* one line, or finds the end of the input and validates the document.     *)
(***************************************************************************)

\* The longest input explored, in lines.
MaxLines == 6

\* The inputs explored: four sets of lines, each about one part of the
\* language, each with a line for every branch of the dispatcher.

\* Tracks, index points, titles and the validation of the tracks.
TrackLines ==
    {"FILE a.wav WAVE",
     "TRACK 01 AUDIO", "TRACK 02 AUDIO", "TRACK 03 AUDIO", "TRACK 1 AUDIO",
     "TRACK 001 AUDIO", "TRACK xx AUDIO", "TRACK 01",
     "INDEX 00 00:00:00", "INDEX 00 00:00:50",
     "INDEX 01 00:00:00", "INDEX 01 00:01:00", "INDEX 01 00:00:50",
     "INDEX 02 00:02:00", "INDEX 01 00:0x:00", "INDEX 01",
     "TITLE Intro",
     "TRACK 99999999999999999999 AUDIO", "TRACK 4294967297 AUDIO",
     "PERFORMER", "REM DATE", "", "\f", "UNSUPPORTED foo bar"}

\* The FILE command.
FileLines ==
    {"FILE a.wav WAVE", "FILE \"b c.mp3\" MP3", "FILE WAVE", "FILE a.wav wave",
     "FILE a.wav OGG", "FILE \"\" WAVE", "FILE \"\" MP3", "file d.aiff AIFF",
     "TRACK 01 AUDIO", "TRACK 01 \"\f", "INDEX 01 00:00:00", "INDEX 01 00:02:00",
     "TITLE Intro", "PERFORMER", "REM DATE", "  ", "\f", "UNSUPPORTED foo bar"}

\* The string fields of the album and of a track.
AlbumLines ==
    {"PERFORMER Ann", "PERFORMER \"Bob Cat\"", "PERFORMER", "PERFORMER \"\f",
     "TITLE Intro", "TITLE Outro", "TITLE",
     "REM GENRE Rock", "REM GENRE Heavy Metal", "REM GENRE",
     "REM DATE 1989", "rem date 1974-01",
     "FILE a.wav WAVE", "FILE b.mp3 MP3", "FILE a.wav OGG",
     "TRACK 01 AUDIO", "TRACK 02 AUDIO", "INDEX 01",
     "REM", "\f", "UNSUPPORTED foo bar"}

\* The REM command: the disc id and the remarks.
RemLines ==
    {"REM DISCID 00000000", "REM DISCID 0000000a", "REM DISCID FFFFFFFF",
     "REM DISCID 123456" \o EncodeRune(\hE9),
     "rem d" \o EncodeRune(\h131) \o EncodeRune(\h17F) \o "c" \o EncodeRune(\h131)
        \o "d 0000000a",
     "REM DISCID 1234567", "REM DISCID 1234567G", "REM DISCID G1234567",
     "REM DISCID", "REM DISCID 12345678 9",
     "REM COMMENT hi", "REM note", "REM comment", "REM", " \t", "\f", "REM \f",
     "FILE WAVE", "TRACK 01", "INDEX 01", "TITLE", "PERFORMER",
     "UNSUPPORTED foo bar"}

\* The commands in every letter case, with too few and too many parameters,
\* tokens that are no command, and tokens and white space outside ASCII: the
\* letters U+00EC, U+0131 (dotless i), U+03B9 (small iota) and U+00B5, the byte
\* FF and the spaces '\v', U+0085, U+00A0 and U+3000.
DispatchLines ==
    {"file a.wav WAVE", "Performer Ann", "tItLe Intro", "track 01 AUDIO",
     "Index 01 00:00:50", "rem genre Rock", "Rem Date 1989", "TRACK 02 AUDIO",
     "UNSUPPORTED foo bar", "FILES a.wav WAVE", "f1le a.wav WAVE", "TRAC", "remark hi",
     "TRACK", "TRACK 01", "TRACK 01 AUDIO CD", "INDEX", "INDEX 01",
     "INDEX 01 00:00:00 00", "PERFORMER", "TITLE", "REM GENRE", "rem date",
     "FILE WAVE", "", "\f",
     "TITLE" \o verticalTab \o "Intro", "performer" \o noBreakSpace \o "Ann",
     "rem" \o nextLine \o "genre Rock", verticalTab,
     "Rem" \o EncodeRune(\h3000) \o "Date 1989",
     "t" \o EncodeRune(\hEC) \o "tle Intro",
     "t" \o EncodeRune(\h131) \o "tle Intro",
     "f" \o EncodeRune(\h131) \o "le a.wav WAVE",
     "t" \o EncodeRune(\h3B9) \o "tle Intro",
     EncodeRune(\hB5) \o " x", "tit" \o Byte(\hFF) \o "le Intro"}

\* The last tracks of a document of many tracks.
ManyTrackLines ==
    {"TRACK 98 AUDIO", "TRACK 99 AUDIO", "TRACK 100 AUDIO", "TRACK +99 AUDIO",
     "TRACK 101 AUDIO", "TITLE Last", "INDEX 01 00:00:50", "INDEX 00 00:00:00",
     "FILE WAVE", "PERFORMER", "REM DATE", "REM", "", "\f", "UNSUPPORTED foo bar"}

\* The INDEX command: index numbers, and timestamps in and out of the form
\* MM:SS:FF.
IndexLines ==
    {"FILE a.wav WAVE", "TRACK 01 AUDIO", "TRACK 02 AUDIO",
     "INDEX 01 02:03:04", "INDEX 00 01:59:74", "INDEX 01 99:99:99",
     "INDEX 1 00:00:01", "INDEX 02 00:02:00", "INDEX -1 00:00:00",
     "INDEX x1 00:00:00", "INDEX 01 1:2:3", "INDEX 01 001:02:03",
     "INDEX 01 00:02:030", "INDEX 01 -1:00:00", "INDEX 00 00:00:-5",
     "INDEX 01 00:00", "INDEX 01 00:0x:00", "INDEX 01 00-00-00",
     "INDEX 99999999999999999999 00:00:00", "INDEX 4294967296 00:00:00",
     "TITLE", "PERFORMER", "REM DATE", "", "\f", "UNSUPPORTED foo bar"}

\* Commands that succeed before, between and after the tracks.
FrameLines ==
    {"FILE a.wav WAVE", "PERFORMER Ann", "REM GENRE Rock",
     "TRACK 01 AUDIO", "TRACK 02 AUDIO",
     "INDEX 01 00:00:50", "INDEX 00 00:00:00", "INDEX 01 00:01:00",
     "TITLE Intro", "", "\f", "UNSUPPORTED foo bar"}

Inputs ==
    {TrackLines, FileLines, AlbumLines, RemLines, DispatchLines, ManyTrackLines,
     IndexLines, FrameLines}

VARIABLES
    input,      \* the lines the reader can supply
    c,          \* the document Parse builds (src/cuesheet.go:83)
    lineNr,     \* the number of lines scanned (src/cuesheet.go:85)
    text,       \* the line last scanned, scanner.Text() (src/cuesheet.go:87)
    pc,         \* "scan" while Parse reads lines, "done" once it has returned
    result,     \* what Parse returned: "doc", "line error" (src/cuesheet.go:93),
                \* "invalid cue sheet" (src/cuesheet.go:97), or "panic"
    err,        \* the error Parse returned, Nil if none
    assigned,   \* history: the fields that a command of the input has assigned
    remaining,  \* the number of lines the reader can still supply
    errLine     \* the line number in the error Parse returned (src/cuesheet.go:93),
                \* 0 if it returned none

vars ==
    <<input, c, lineNr, text, pc, result, err, assigned, remaining, errLine>>

\* src/cuesheet.go:82-85  Parse starts on a reader that supplies the given lines
Start(lines) ==
    /\ input = lines
    /\ c = NewCueSheet
    /\ lineNr = 0
    /\ text = ""
    /\ pc = "scan"
    /\ result = "none"
    /\ err = Nil
    /\ assigned = {}
    /\ remaining = MaxLines
    /\ errLine = 0

Init == \E lines \in Inputs : Start(lines)
InitTracks == Start(TrackLines)
InitFile == Start(FileLines)
InitAlbum == Start(AlbumLines)
InitRem == Start(RemLines)
InitDispatch == Start(DispatchLines)
InitIndex == Start(IndexLines)
InitFrame == Start(FrameLines)

\* src/unnamed/part_000:19  the most tracks a document may hold
maxTracks == 99

\* The tracks declared before the lines of ManyTrackLines.
DeclaredTracks == maxTracks - 1

\* src/cuesheet.go:86-94,175-192  Parse has read "TRACK 01 AUDIO" to
\* "TRACK 98 AUDIO", one a line, and the reader can supply the given lines
StartManyTracks(lines) ==
    /\ input = lines
    /\ c = [NewCueSheet EXCEPT
               !.Tracks = [i \in 1..DeclaredTracks |-> [ZeroTrack EXCEPT !.Type = "AUDIO"]]]
    /\ lineNr = DeclaredTracks
    /\ text = "TRACK 98 AUDIO"
    /\ pc = "scan"
    /\ result = "none"
    /\ err = Nil
    /\ assigned = {Field(i, "Type") : i \in 1..DeclaredTracks}
    /\ remaining = MaxLines
    /\ errLine = 0

InitManyTracks == StartManyTracks(ManyTrackLines)

\* src/cuesheet.go:87,104-108  what Parse computes from a raw line alone: the
\* trimmed line, its fields and its command, uppercased.  Tabulated once for
\* the lines of the inputs.
Tokenise(l) ==
    LET t == Trim(l)
        f == Fields(t)
    IN  [line |-> t, fields |-> f,
         command |-> IF Len(f) = 0 THEN "" ELSE ToUpper(f[1])]

Tokenised == [l \in UNION Inputs \cup {""} |-> Tokenise(l)]

\* src/cuesheet.go:87  line := strings.Trim(scanner.Text(), trimChars)
LineOf(l) == Tokenised[l].line

\* src/cuesheet.go:89  the lines Parse skips
Skipped(l) == LineOf(l) = "" \/ LineOf(l) = "REM"

\* src/cuesheet.go:104-108  the fields of a line and its command, uppercased
FieldsOf(l) == Tokenised[l].fields
CommandOf(l) == Tokenised[l].command
Dispatched(l, name) == ~Skipped(l) /\ Len(FieldsOf(l)) > 0 /\ CommandOf(l) = name

CommandNames ==
    {FileCommand.Name, PerformerCommand.Name, TrackCommand.Name,
     TrackIndexCommand.Name, TitleCommand.Name, RemCommand.Name}

\* Scan that counts only the lines that reach parseLine: lineNr++ after the
\* test for a line to skip
Scan_CountsParsedLines(l) ==
    /\ pc = "scan"
    /\ remaining > 0
    /\ l \in input
    /\ remaining' = remaining - 1
    /\ lineNr' = (IF Skipped(l) THEN lineNr ELSE lineNr + 1)
    /\ text' = l
    /\ UNCHANGED input

\* src/cuesheet.go:86-88  scanner.Scan() yields the line l
Scan(l) ==
    /\ pc = "scan"
    /\ remaining > 0
    /\ l \in input
    /\ remaining' = remaining - 1
    /\ lineNr' = lineNr + 1
    /\ text' = l
    /\ UNCHANGED input

\* ParseLine that records the error of a line and goes on to the next line
ParseLine_GoesOn(l) ==
    LET r == parseLine(c, FieldsOf(l))
    IN  /\ c' = r.c
        /\ err' = r.err
        /\ pc' = "scan"
        /\ IF IsErr(r.err)
           THEN /\ result' = (IF r.err.kind = Panic THEN "panic" ELSE "line error")
                /\ errLine' = (IF r.err.kind = Panic THEN 0 ELSE lineNr')
                /\ UNCHANGED assigned
           ELSE /\ result' = "none"
                /\ errLine' = 0
                /\ assigned' = assigned \cup Targets(c, FieldsOf(l))

\* src/cuesheet.go:92-94  the line goes to parseLine; Parse returns at the
\* first line that fails
ParseLine(l) ==
    LET r == parseLine(c, FieldsOf(l))
    IN  /\ c' = r.c
        /\ err' = r.err
        /\ IF IsErr(r.err)
           THEN /\ pc' = "done"
                /\ result' = (IF r.err.kind = Panic THEN "panic" ELSE "line error")
                /\ errLine' = (IF r.err.kind = Panic THEN 0 ELSE lineNr')
                /\ UNCHANGED assigned
           ELSE /\ pc' = "scan"
                /\ result' = "none"
                /\ errLine' = 0
                /\ assigned' = assigned \cup Targets(c, FieldsOf(l))

\* src/cuesheet.go:89-91
SkipLine ==
    \E l \in input :
        /\ Skipped(l)
        /\ Scan(l)
        /\ UNCHANGED <<c, pc, result, err, assigned, errLine>>

\* src/cuesheet.go:104-106
NoFieldsLine ==
    \E l \in input :
        /\ ~Skipped(l)
        /\ Len(FieldsOf(l)) = 0
        /\ Scan(l)
        /\ ParseLine(l)

\* src/cuesheet.go:109-110
FileLine ==
    \E l \in input :
        /\ Dispatched(l, FileCommand.Name)
        /\ Scan(l)
        /\ ParseLine(l)

\* src/cuesheet.go:111-112
PerformerLine ==
    \E l \in input :
        /\ Dispatched(l, PerformerCommand.Name)
        /\ Scan(l)
        /\ ParseLine(l)

\* src/cuesheet.go:113-114
TrackLine ==
    \E l \in input :
        /\ Dispatched(l, TrackCommand.Name)
        /\ Scan(l)
        /\ ParseLine(l)

\* src/cuesheet.go:115-116
TrackIndexLine ==
    \E l \in input :
        /\ Dispatched(l, TrackIndexCommand.Name)
        /\ Scan(l)
        /\ ParseLine(l)

\* src/cuesheet.go:117-118
TitleLine ==
    \E l \in input :
        /\ Dispatched(l, TitleCommand.Name)
        /\ Scan(l)
        /\ ParseLine(l)

\* src/cuesheet.go:119-120
RemLine ==
    \E l \in input :
        /\ Dispatched(l, RemCommand.Name)
        /\ Scan(l)
        /\ ParseLine(l)

\* src/cuesheet.go:121-122
UnexpectedLine ==
    \E l \in input :
        /\ ~Skipped(l)
        /\ Len(FieldsOf(l)) > 0
        /\ CommandOf(l) \notin CommandNames
        /\ Scan(l)
        /\ ParseLine(l)

\* src/cuesheet.go:96-100  the input is at its end: validate and return
EndOfInput ==
    /\ pc = "scan"
    /\ pc' = "done"
    /\ err' = validate(c)
    /\ result' = (IF IsErr(validate(c)) THEN "invalid cue sheet" ELSE "doc")
    /\ UNCHANGED <<input, c, lineNr, text, assigned, remaining, errLine>>

Next ==
    \/ SkipLine
    \/ NoFieldsLine
    \/ FileLine
    \/ PerformerLine
    \/ TrackLine
    \/ TrackIndexLine
    \/ TitleLine
    \/ RemLine
    \/ UnexpectedLine
    \/ EndOfInput

(***************************************************************************)
(* The validation of the tracks in the variant src/unnamed/part_000, where *)
(* Index00 and Index01 of a track are pointers: <<>> is nil, <<p>> points  *)
(* to p.                                                                   *)
(***************************************************************************)

\* src/unnamed/part_000:301,314  a loop returns at the first of the iterations
\* that return
Least(S) == CHOOSE i \in S : \A j \in S : i <= j

\* src/unnamed/part_000:323-331  idx.before(indexPoint)
before(idx, indexPoint) ==
    \/ idx.Timestamp < indexPoint.Timestamp
    \/ idx.Timestamp = indexPoint.Timestamp /\ idx.Frame < indexPoint.Frame

\* src/unnamed/part_000:309-312  the index points the first loop collects
RECURSIVE indexPoints(_)
indexPoints(tracks) ==
    IF Len(tracks) = 0 THEN <<>>
    ELSE tracks[1].Index00 \o tracks[1].Index01 \o indexPoints(Tail(tracks))

\* src/unnamed/part_000:301-308  the tracks at which the first loop returns
MissingAt(tracks) ==
    {i \in 1..Len(tracks) : tracks[i].Type = "" \/ tracks[i].Index01 = <<>>}

\* src/unnamed/part_000:303-308  the error of the first loop at track i
MissingIn(tracks, i) ==
    IF tracks[i].Type = "" THEN Err("missing track TYPE", <<i>>)
    ELSE Err("missing INDEX 01", <<i>>)

\* src/unnamed/part_000:314  for i := range len(indexPoints) - 2, with i + 1
\* for i as sequences start at 1: no value when the length is 2 or less
PairsChecked(points) == 1..(Len(points) - 2)

\* src/unnamed/part_000:314-320  the pairs at which the second loop returns
OverlappingAt(points) ==
    {i \in PairsChecked(points) : before(points[i + 1], points[i])}

\* src/unnamed/part_000:314-320  the second loop
validateIndexPoints(points, bad) ==
    IF bad = {} THEN Nil
    ELSE Err("overlapping index points",
             <<points[Least(bad)], points[Least(bad) + 1]>>)

\* src/unnamed/part_000:299-321  validateTracks of the variant
validateTracks_part000(tracks) ==
    IF MissingAt(tracks) # {}
    THEN MissingIn(tracks, Least(MissingAt(tracks)))
    ELSE validateIndexPoints(indexPoints(tracks), OverlappingAt(indexPoints(tracks)))

\* The most tracks of a list given to validateTracks of the variant.
MaxTrackList == 2

\* src/unnamed/part_000:36-39  index points to build the tracks from
SomePoints == {IndexPoint(0, 0), IndexPoint(1, 0), IndexPoint(0, 1)}

\* src/unnamed/part_000:43-48  tracks with and without a type and index points
SomeTracks ==
    [Title : {""}, Type : {"", "AUDIO"},
     Index00 : {<<>>} \cup {<<p>> : p \in SomePoints},
     Index01 : {<<>>} \cup {<<p>> : p \in SomePoints}]

\* src/unnamed/part_000:299  validateTracks is called on a document of at
\* least one track (part_000:293) and at most MaxTrackList
InitValidateTracks ==
    \E n \in 1..MaxTrackList :
        \E tracks \in [1..n -> SomeTracks] :
            /\ input = {}
            /\ c = [NewCueSheet EXCEPT !.Tracks = tracks]
            /\ lineNr = 0
            /\ text = ""
            /\ pc = "validateTracks"
            /\ result = "none"
            /\ err = Nil
            /\ assigned = {}
            /\ remaining = 0
            /\ errLine = 0

\* src/unnamed/part_000:299-321  validateTracks returns
ValidateTracks ==
    /\ pc = "validateTracks"
    /\ pc' = "done"
    /\ err' = validateTracks_part000(c.Tracks)
    /\ result' = (IF IsErr(validateTracks_part000(c.Tracks))
                  THEN "invalid tracks" ELSE "valid tracks")
    /\ UNCHANGED <<input, c, lineNr, text, assigned, remaining, errLine>>

Spec == Init /\ [][Next]_vars
SpecTracks == InitTracks /\ [][Next]_vars
SpecFile == InitFile /\ [][Next]_vars
SpecAlbum == InitAlbum /\ [][Next]_vars
SpecRem == InitRem /\ [][Next]_vars
SpecDispatch == InitDispatch /\ [][Next]_vars
SpecIndex == InitIndex /\ [][Next]_vars
SpecFrame == InitFrame /\ [][Next]_vars
SpecManyTracks == InitManyTracks /\ [][Next]_vars
SpecValidateTracks == InitValidateTracks /\ [][ValidateTracks]_vars

(***************************************************************************)
(* Properties.                                                             *)
(*                                                                         *)
(* A property of a command is a property of the step that scans its line:  *)
(* c is the document before the line, text' the line, and c', result' and  *)
(* err' what parseLine made of it.                                         *)
(***************************************************************************)

\* the step scans a line
ScannedStep == lineNr' = lineNr + 1

\* the step scans a line of the command
CommandStep(name) == ScannedStep /\ Dispatched(text', name)

\* the fields of the line scanned, fields[1] the command
StepFields == FieldsOf(text')

\* Parse returned at the line scanned, with an error
FailedStep == pc' = "done" /\ result' = "line error"

\* a document with one track, just declared
OneTrack == [NewCueSheet EXCEPT !.Tracks = <<ZeroTrack>>]

\* the line is one that its handler accepts when nothing is set yet
WellFormed(l) ==
    \E doc \in {NewCueSheet, OneTrack} : ~IsErr(parseLine(doc, FieldsOf(l)).err)

\* lexicographic order on (timestamp, frame)
Before(a, b) ==
    \/ a.Timestamp < b.Timestamp
    \/ a.Timestamp = b.Timestamp /\ a.Frame < b.Frame

StrictlyIncreasing(points) ==
    \A i \in 1..(Len(points) - 1) : Before(points[i], points[i + 1])

\* for each track in order: its Index00 if present, then its Index01
Flattened(doc) ==
    LET F[i \in 0..Len(doc.Tracks)] ==
            IF i = 0 THEN <<>>
            ELSE F[i - 1] \o doc.Tracks[i].Index00 \o <<doc.Tracks[i].Index01>>
    IN  F[Len(doc.Tracks)]

----------------------------------------------------------------------------
\* C1: a TRACK command that declares the number k when the document holds N
\* tracks fails at its line, appending no track, unless k = N + 1; the track
\* list only ever changes by a TRACK command that declares N + 1 appending
\* the track N + 1, so the tracks of a returned document were declared 1..N.
C1_Step ==
    /\ ( /\ CommandStep(TrackCommand.Name)
         /\ Len(StepFields) >= 2
         /\ Atoi(StepFields[2]).ok
         /\ IntNeq(Atoi(StepFields[2]), Len(c.Tracks) + 1) )
       => FailedStep /\ c'.Tracks = c.Tracks
    /\ Len(c'.Tracks) # Len(c.Tracks)
       => /\ CommandStep(TrackCommand.Name)
          /\ Len(StepFields) >= 2
          /\ Atoi(StepFields[2]).ok
          /\ IntEq(Atoi(StepFields[2]), Len(c.Tracks) + 1)
          /\ Len(c'.Tracks) = Len(c.Tracks) + 1
          /\ result' = "none"

C1_TrackNumbers == [][C1_Step]_vars

\* TRACK 02 a second time, when the document holds tracks 1 and 2
C1_Witness ==
    /\ result = "line error"
    /\ err.kind = "expected track number"
    /\ err.args = <<3, 2>>
    /\ Len(c.Tracks) = 2

----------------------------------------------------------------------------
\* C2: the flattened index points of a returned document are strictly
\* increasing by (timestamp, frame), the last pair included; when the end of
\* the input is reached with an equal or decreasing adjacent pair, validation
\* rejects the document, and for its index points if the file is named and
\* every track has its type.
C2_IndicesIncrease ==
    /\ result = "doc" => StrictlyIncreasing(Flattened(c))
    /\ ( /\ result \in {"doc", "invalid cue sheet"}
         /\ ~StrictlyIncreasing(Flattened(c)) )
       => /\ result = "invalid cue sheet"
          /\ ( /\ c.FileName # ""
               /\ c.Format # ""
               /\ \A i \in 1..Len(c.Tracks) : c.Tracks[i].Type # "" )
             => err.kind = "overlapping indices"

\* three index points, the last two the only pair out of order
C2_Witness ==
    /\ result = "invalid cue sheet"
    /\ err.kind = "overlapping indices"
    /\ Len(Flattened(c)) = 3
    /\ Before(Flattened(c)[1], Flattened(c)[2])
    /\ ~Before(Flattened(c)[2], Flattened(c)[3])

----------------------------------------------------------------------------
\* C3: every track of a returned document received an INDEX 01 command.
C3_EveryTrackHasIndex01 ==
    result = "doc" =>
        \A i \in 1..Len(c.Tracks) : Field(i, "Index01") \in assigned

----------------------------------------------------------------------------
\* C4: once a command has assigned a string field (album performer, album
\* title, track title, genre, date, file name, format), a later well-formed
\* command for that field fails with "field already set", carrying the first
\* value assigned (for FILE, whose fields are set together, that of the field
\* found set), and the field keeps its value.
StringFieldNames ==
    {"AlbumPerformer", "AlbumTitle", "Title", "Genre", "Date", "FileName", "Format"}

C4_Step ==
    \A f \in Targets(c, StepFields) :
        ( /\ ScannedStep
          /\ ~Skipped(text')
          /\ WellFormed(text')
          /\ f[2] \in StringFieldNames
          /\ f \in assigned )
        => /\ FailedStep
           /\ err'.kind = AlreadySet
           /\ \E g \in Targets(c, StepFields) \cap assigned :
                err'.args = <<FieldValue(c, g)>>
           /\ FieldValue(c', f) = FieldValue(c, f)

C4_StringFieldsSetOnce == [][C4_Step]_vars

----------------------------------------------------------------------------
\* C5: once a REM DISCID line has assigned the disc id, whatever its value,
\* a later well-formed REM DISCID line fails with "field already set" and the
\* disc id keeps its value.
C5_Step ==
    ( /\ CommandStep(RemCommand.Name)
      /\ WellFormed(text')
      /\ Targets(c, StepFields) = {Field(0, "DiscID")}
      /\ Field(0, "DiscID") \in assigned )
    => /\ FailedStep
       /\ err'.kind = AlreadySet
       /\ c'.DiscID = c.DiscID

C5_DiscIDSetOnce == [][C5_Step]_vars

----------------------------------------------------------------------------
\* C6: once an INDEX 01 line has set the Index01 of the last track, whatever
\* its timestamp, a later well-formed INDEX 01 line for that track fails and
\* the Index01 keeps its value.
C6_Step ==
    ( /\ CommandStep(TrackIndexCommand.Name)
      /\ WellFormed(text')
      /\ Targets(c, StepFields) = {Field(Len(c.Tracks), "Index01")}
      /\ Field(Len(c.Tracks), "Index01") \in assigned )
    => /\ FailedStep
       /\ c'.Tracks[Len(c.Tracks)].Index01 = c.Tracks[Len(c.Tracks)].Index01

C6_Index01SetOnce == [][C6_Step]_vars

----------------------------------------------------------------------------
\* C7: once an INDEX 00 line has set the Index00 of the last track, a later
\* well-formed INDEX 00 line for that track fails and the Index00 keeps its
\* value.
C7_Step ==
    ( /\ CommandStep(TrackIndexCommand.Name)
      /\ WellFormed(text')
      /\ Targets(c, StepFields) = {Field(Len(c.Tracks), "Index00")}
      /\ Field(Len(c.Tracks), "Index00") \in assigned )
    => /\ FailedStep
       /\ c'.Tracks[Len(c.Tracks)].Index00 = c.Tracks[Len(c.Tracks)].Index00

C7_Index00SetOnce == [][C7_Step]_vars

----------------------------------------------------------------------------
\* C8: a TITLE line before the first track changes at most the album title,
\* to its value when the line succeeds; a TITLE line after it changes at most
\* the title of the last track, to its value when the line succeeds; once a
\* track is declared the album title never changes and a track stays declared.
TitleValue == Trim(Join(Tail(StepFields)))

C8_Step ==
    /\ (CommandStep(TitleCommand.Name) /\ Len(c.Tracks) = 0)
       => /\ c'.Tracks = <<>>
          /\ c' = [c EXCEPT !.AlbumTitle = c'.AlbumTitle]
          /\ result' = "none" => c'.AlbumTitle = TitleValue
    /\ (CommandStep(TitleCommand.Name) /\ Len(c.Tracks) > 0)
       => /\ c' = [c EXCEPT !.Tracks[Len(c.Tracks)].Title = c'.Tracks[Len(c.Tracks)].Title]
          /\ result' = "none" => c'.Tracks[Len(c.Tracks)].Title = TitleValue
    /\ Len(c.Tracks) > 0
       => c'.AlbumTitle = c.AlbumTitle /\ Len(c'.Tracks) >= Len(c.Tracks)

C8_TitleRouting == [][C8_Step]_vars

\* the second of two tracks has its title, the first and the album have none
C8_Witness ==
    /\ Len(c.Tracks) = 2
    /\ c.AlbumTitle = ""
    /\ c.Tracks[1].Title = ""
    /\ c.Tracks[2].Title = "Outro"

----------------------------------------------------------------------------
\* C9: a FILE line with a number of parameters other than 2 fails with
\* "expected 2 parameters, got <n>" and assigns neither format nor file name.
C9_Step ==
    ( /\ CommandStep(FileCommand.Name)
      /\ Len(StepFields) - 1 # 2 )
    => /\ FailedStep
       /\ err'.kind = "expected N parameters"
       /\ err'.args = <<2, Len(StepFields) - 1>>
       /\ c'.Format = c.Format
       /\ c'.FileName = c.FileName

C9_FileTakesTwoParameters == [][C9_Step]_vars

----------------------------------------------------------------------------
\* C10: a returned document has a file name, one of the five formats, at
\* least one track and a type on every track; a FILE line whose last token is
\* not one of the five formats fails at its line and assigns neither format
\* nor file name.
FiveFormats == {"WAVE", "MP3", "AIFF", "BINARY", "MOTOROLA"}

C10_Step ==
    /\ result' = "doc"
       => /\ c'.FileName # ""
          /\ c'.Format \in FiveFormats
          /\ Len(c'.Tracks) > 0
          /\ \A i \in 1..Len(c'.Tracks) : c'.Tracks[i].Type # ""
    /\ ( /\ CommandStep(FileCommand.Name)
         /\ Len(StepFields) >= 2
         /\ StepFields[Len(StepFields)] \notin FiveFormats )
       => /\ FailedStep
          /\ c'.Format = c.Format
          /\ c'.FileName = c.FileName

C10_ReturnedDocumentComplete == [][C10_Step]_vars

\* a document returned with the format MP3 and a file name of two words
C10_Witness ==
    /\ result = "doc"
    /\ c.Format = "MP3"
    /\ c.FileName = "b c.mp3"

----------------------------------------------------------------------------
\* C11: when every line parsed, validation reports exactly the first violated
\* condition in the order: missing file name, missing format, no tracks, the
\* first track in document order without a type or without an INDEX 01
\* command, the first adjacent pair of the flattened index points that is not
\* strictly increasing; with none violated the document is returned.
ValidationRan == result \in {"doc", "invalid cue sheet"}

\* the tracks that miss their type or received no INDEX 01 command
IncompleteTracks ==
    {i \in 1..Len(c.Tracks) :
        c.Tracks[i].Type = "" \/ Field(i, "Index01") \notin assigned}

\* the adjacent pairs of the flattened index points that do not increase
UnorderedPairs ==
    {i \in 1..(Len(Flattened(c)) - 1) : ~Before(Flattened(c)[i], Flattened(c)[i + 1])}

ConditionKinds ==
    {"missing file name", "missing file format", "missing tracks",
     "missing track type", "overlapping indices"}

C11_ValidationPrecedence ==
    ValidationRan =>
        IF c.FileName = ""
        THEN result = "invalid cue sheet" /\ err.kind = "missing file name"
        ELSE IF c.Format = ""
        THEN result = "invalid cue sheet" /\ err.kind = "missing file format"
        ELSE IF Len(c.Tracks) = 0
        THEN result = "invalid cue sheet" /\ err.kind = "missing tracks"
        ELSE IF IncompleteTracks # {}
        THEN /\ result = "invalid cue sheet"
             /\ IF c.Tracks[Least(IncompleteTracks)].Type = ""
                THEN err.kind = "missing track type"
                ELSE err.kind \notin ConditionKinds
        ELSE IF UnorderedPairs # {}
        THEN /\ result = "invalid cue sheet"
             /\ err.kind = "overlapping indices"
             /\ err.args = <<Flattened(c)[Least(UnorderedPairs)],
                             Flattened(c)[Least(UnorderedPairs) + 1]>>
        ELSE result = "doc" /\ err = Nil

----------------------------------------------------------------------------
\* C12: Parse is fail-fast.  Every step is taken by a Parse that has not
\* returned and has seen no line fail, so nothing follows a failure; a line
\* whose command fails ends Parse with that error and no document; a document
\* is returned only by the validation of a document whose lines all succeeded.
C12_Step ==
    /\ pc = "scan" /\ result = "none" /\ err = Nil
    /\ ( /\ ScannedStep
         /\ ~Skipped(text')
         /\ Len(StepFields) > 0
         /\ IsErr(parseLine(c, StepFields).err)
         /\ parseLine(c, StepFields).err.kind # Panic )
       => /\ pc' = "done"
          /\ result' = "line error"
          /\ err' = parseLine(c, StepFields).err
    /\ result' = "doc"
       => /\ ~ScannedStep
          /\ c' = c
          /\ err' = Nil
    /\ pc' = "done" => result' # "none"

C12_FailFast == [][C12_Step]_vars

\* Parse returned at a line that failed, after lines that assigned fields and
\* before the reader was at its end
C12_Witness ==
    /\ result = "line error"
    /\ pc = "done"
    /\ assigned # {}
    /\ remaining > 0

----------------------------------------------------------------------------
\* C13: when Parse fails on a line, the line number in its error is the
\* position of that line in the input, counted from 1 over every line the
\* reader supplied, the skipped blank lines and bare REM lines included.
LinesRead == MaxLines - remaining

C13_LineNumber ==
    /\ result = "line error" => errLine = LinesRead /\ errLine >= 1
    /\ result # "line error" => errLine = 0

\* the third line fails, after two lines that were skipped
C13_Witness ==
    /\ result = "line error"
    /\ err.kind = "unexpected command"
    /\ errLine = 3
    /\ c = NewCueSheet

----------------------------------------------------------------------------
\* C14: the first token of a line is matched without regard to letter case
\* against FILE, PERFORMER, TITLE, TRACK, INDEX and REM: a token that matches
\* is handled by the handler of its command, and any other token fails with
\* "unexpected command" naming the token as written, the document unchanged.
\* A token matches a name when each of its letters is the capital or the small
\* letter of the name at that place.
CapitalLetters == "ABCDEFGHIJKLMNOPQRSTUVWXYZ"
SmallLetters == "abcdefghijklmnopqrstuvwxyz"

\* tok is name in some letter case; name is in capital letters
EqualFold(tok, name) ==
    /\ Len(tok) = Len(name)
    /\ \A i \in 1..Len(name) :
         \E k \in 1..Len(CapitalLetters) :
            /\ CharAt(name, i) = CharAt(CapitalLetters, k)
            /\ CharAt(tok, i) \in {CharAt(CapitalLetters, k), CharAt(SmallLetters, k)}

SixCommands == {"FILE", "PERFORMER", "TITLE", "TRACK", "INDEX", "REM"}

Handled(name, doc, parameters) ==
    CASE name = "FILE"      -> parseFile(doc, parameters)
      [] name = "PERFORMER" -> parsePerformer(doc, parameters)
      [] name = "TITLE"     -> parseTitle(doc, parameters)
      [] name = "TRACK"     -> parseTrack(doc, parameters)
      [] name = "INDEX"     -> parseTrackIndex(doc, parameters)
      [] name = "REM"       -> parseRem(doc, parameters)

C14_Step ==
    (ScannedStep /\ ~Skipped(text') /\ Len(StepFields) > 0)
    => /\ \A name \in SixCommands :
            EqualFold(StepFields[1], name)
            => /\ c' = Handled(name, c, Tail(StepFields)).c
               /\ err' = Handled(name, c, Tail(StepFields)).err
               /\ err'.kind # "unexpected command"
       /\ (\A name \in SixCommands : ~EqualFold(StepFields[1], name))
          => /\ FailedStep
             /\ err' = Err("unexpected command", <<StepFields[1]>>)
             /\ c' = c

C14_CommandDispatch == [][C14_Step]_vars

----------------------------------------------------------------------------
\* C15: a REM DISCID line with one parameter succeeds only when the parameter
\* is exactly 8 hexadecimal digits: a parameter of another length fails with
\* "expected 8 hex digits, got <length>", one of 8 characters with a character
\* that is no hexadecimal digit fails, and a line that fails leaves the disc
\* id as it was.
HexCharacters ==
    {"0", "1", "2", "3", "4", "5", "6", "7", "8", "9",
     "a", "b", "c", "d", "e", "f", "A", "B", "C", "D", "E", "F"}

EightHexDigits(p) ==
    Len(p) = 8 /\ \A i \in 1..8 : CharAt(p, i) \in HexCharacters

C15_Step ==
    ( /\ CommandStep(RemCommand.Name)
      /\ Len(StepFields) = 3
      /\ EqualFold(StepFields[2], "DISCID") )
    => /\ ~EightHexDigits(StepFields[3])
          => FailedStep /\ c'.DiscID = c.DiscID
       /\ Len(StepFields[3]) # 8
          => err' = Err("expected 8 hex digits", <<Len(StepFields[3])>>)
       /\ FailedStep => c'.DiscID = c.DiscID

C15_DiscIDEightHexDigits == [][C15_Step]_vars

----------------------------------------------------------------------------
\* C16: the document never holds more than 99 tracks, and a TRACK line that
\* declares a number greater than 99 fails and appends no track, also when the
\* number is the number of tracks plus one.
C16_Step ==
    /\ Len(c.Tracks) <= maxTracks
    /\ Len(c'.Tracks) <= maxTracks
    /\ ( /\ CommandStep(TrackCommand.Name)
         /\ Len(StepFields) >= 2
         /\ Atoi(StepFields[2]).ok
         /\ IntGt(Atoi(StepFields[2]), maxTracks) )
       => FailedStep /\ c'.Tracks = c.Tracks

C16_AtMost99Tracks == [][C16_Step]_vars

\* TRACK 100 fails on a document of 99 tracks
C16_Witness ==
    /\ Len(c.Tracks) = maxTracks
    /\ text = "TRACK 100 AUDIO"
    /\ result = "line error"
    /\ err.kind = "expected 2 digits"

----------------------------------------------------------------------------
\* C17: once the last track has received INDEX 01, a well-formed INDEX 00 line
\* for that track fails and leaves the tracks as they were: INDEX 00 can only
\* come before INDEX 01.
C17_Step ==
    ( /\ CommandStep(TrackIndexCommand.Name)
      /\ Len(c.Tracks) > 0
      /\ WellFormed(text')
      /\ Targets(c, StepFields) = {Field(Len(c.Tracks), "Index00")}
      /\ Field(Len(c.Tracks), "Index01") \in assigned )
    => FailedStep /\ c'.Tracks = c.Tracks

C17_Index00BeforeIndex01 == [][C17_Step]_vars

----------------------------------------------------------------------------
\* C18: a REM line whose sub-keyword is COMMENT, or is none of GENRE, DATE and
\* DISCID, never fails and appends exactly one entry to the remarks, after the
\* entries already there, changing no other field of the document; no other
\* line changes the remarks.  So the remarks hold one entry for each such
\* line, in source order, duplicates kept.  The sub-keyword of a line is its
\* second token; it is a name when each of its letters is the capital or the
\* small letter of the name at that place.
SubKeyword(name) == EqualFold(StepFields[2], name)

RemarkStep ==
    /\ CommandStep(RemCommand.Name)
    /\ Len(StepFields) >= 2
    /\ \A name \in {"GENRE", "DATE", "DISCID"} : ~SubKeyword(name)

\* the parameters joined: those after COMMENT, or all of them
RemarkText ==
    IF SubKeyword("COMMENT")
    THEN Trim(Join(SubSeq(StepFields, 3, Len(StepFields))))
    ELSE Trim(Join(Tail(StepFields)))

C18_Step ==
    /\ RemarkStep
       => /\ result' = "none"
          /\ err' = Nil
          /\ c'.Remarks = Append(c.Remarks, RemarkText)
          /\ c' = [c EXCEPT !.Remarks = c'.Remarks]
    /\ ~RemarkStep => c'.Remarks = c.Remarks

C18_RemarksAppend == [][C18_Step]_vars

----------------------------------------------------------------------------
\* C19: the number of parameters is checked before anything is assigned: a
\* TRACK or INDEX line with a number of parameters other than 2 fails with
\* "expected 2 parameters, got <n>", and a PERFORMER, TITLE, REM GENRE or REM
\* DATE line without a value fails with "expected at least 1 parameters, got
\* 0"; the document is left as it was.
NrParameters == Len(StepFields) - 1

C19_Step ==
    /\ ( /\ CommandStep(TrackCommand.Name) \/ CommandStep(TrackIndexCommand.Name)
         /\ NrParameters # 2 )
       => /\ FailedStep
          /\ err' = Err("expected N parameters", <<2, NrParameters>>)
          /\ c' = c
    /\ ( /\ CommandStep(PerformerCommand.Name) \/ CommandStep(TitleCommand.Name)
         /\ NrParameters = 0 )
       => /\ FailedStep
          /\ err' = Err("expected at least N parameters", <<1, 0>>)
          /\ c' = c
    /\ ( /\ CommandStep(RemCommand.Name)
         /\ NrParameters = 1
         /\ EqualFold(StepFields[2], "GENRE") \/ EqualFold(StepFields[2], "DATE") )
       => /\ FailedStep
          /\ err' = Err("expected at least N parameters", <<1, 0>>)
          /\ c' = c

C19_ArityBeforeMutation == [][C19_Step]_vars

\* a TRACK line with three parameters fails on a document that holds a track
\* and a performer
C19_Witness ==
    /\ text = "TRACK 01 AUDIO CD"
    /\ result = "line error"
    /\ err = Err("expected N parameters", <<2, 3>>)
    /\ Len(c.Tracks) = 1
    /\ c.AlbumPerformer = "Ann"

----------------------------------------------------------------------------
\* C20: a TRACK line whose number is written in one digit, or in three or
\* more, fails with "expected 2 digits, got <length>" and appends no track,
\* whether or not the number is the number of tracks plus one: the length is
\* reported in preference to the sequence.
DigitCharacters == {"0", "1", "2", "3", "4", "5", "6", "7", "8", "9"}

Numeric(tok) ==
    Len(tok) > 0 /\ \A i \in 1..Len(tok) : CharAt(tok, i) \in DigitCharacters

C20_Step ==
    ( /\ CommandStep(TrackCommand.Name)
      /\ NrParameters = 2
      /\ Numeric(StepFields[2])
      /\ Len(StepFields[2]) # 2 )
    => /\ FailedStep
       /\ err' = Err("expected 2 digits", <<Len(StepFields[2])>>)
       /\ c' = c

C20_TwoDigitTrackNumber == [][C20_Step]_vars

\* C20, for the numbers an int can hold: a TRACK line whose number is written
\* in one digit, or in three or more, and is at most 1<<63 - 1, fails with
\* "expected 2 digits, got <length>" and appends no track; a number in digits
\* that is greater fails as a token that is no number does.
C20_StepInRange ==
    ( /\ CommandStep(TrackCommand.Name)
      /\ NrParameters = 2
      /\ Numeric(StepFields[2])
      /\ Len(StepFields[2]) # 2 )
    => IF InRange(Significant(StepFields[2]), FALSE)
       THEN /\ FailedStep
            /\ err' = Err("expected 2 digits", <<Len(StepFields[2])>>)
            /\ c' = c
       ELSE /\ FailedStep
            /\ err' = Err("failed to parse track number", <<StepFields[2]>>)
            /\ c' = c

C20_TwoDigitTrackNumberInRange == [][C20_StepInRange]_vars

\* TRACK 1 after the first track, where the sequence is wrong as well, fails
\* for its length
C20_Witness ==
    /\ result = "line error"
    /\ text = "TRACK 1 AUDIO"
    /\ Len(c.Tracks) = 1
    /\ err = Err("expected 2 digits", <<1>>)

----------------------------------------------------------------------------
\* C21: an INDEX n MM:SS:FF line that succeeds, n being 0 or 1, stores in the
\* index n of the last track the index point with timestamp MM * 60 + SS
\* seconds and frame FF; an INDEX line with a number other than 0 and 1 fails
\* with "expected index number 0 or 1" and stores nothing.
DigitOf(ch) == CHOOSE k \in 0..9 : CharAt("0123456789", k + 1) = ch

\* the value of two digits of tok, the first at position i
TwoDigits(tok, i) == 10 * DigitOf(CharAt(tok, i)) + DigitOf(CharAt(tok, i + 1))

\* tok has the form MM:SS:FF
FixedForm(tok) ==
    /\ Len(tok) = 8
    /\ CharAt(tok, 3) = ":" /\ CharAt(tok, 6) = ":"
    /\ \A i \in {1, 2, 4, 5, 7, 8} : CharAt(tok, i) \in DigitCharacters

\* tok is a number in decimal digits, with or without a sign
IsInteger(tok) ==
    \/ Numeric(tok)
    \/ Len(tok) > 1 /\ CharAt(tok, 1) \in {"+", "-"} /\ Numeric(SubSeq(tok, 2, Len(tok)))

\* the sign of tok and its digits
Negative(tok) == CharAt(tok, 1) = "-"
DigitsOf(tok) ==
    IF CharAt(tok, 1) \in {"+", "-"} THEN SubSeq(tok, 2, Len(tok)) ELSE tok

\* tok is the number 0, and tok is the number 1
IsZero(tok) == \A i \in 1..Len(DigitsOf(tok)) : CharAt(DigitsOf(tok), i) = "0"
IsOne(tok) ==
    /\ ~Negative(tok)
    /\ CharAt(DigitsOf(tok), Len(DigitsOf(tok))) = "1"
    /\ \A i \in 1..(Len(DigitsOf(tok)) - 1) : CharAt(DigitsOf(tok), i) = "0"

\* the number of tok is one that an int can hold
HeldByInt(tok) == InRange(Significant(DigitsOf(tok)), Negative(tok))

\* the index point that the token MM:SS:FF names
PointOf(tok) == IndexPoint(TwoDigits(tok, 7), TwoDigits(tok, 1) * 60 + TwoDigits(tok, 4))

C21_Stores ==
    /\ ( /\ IsZero(StepFields[2])
         /\ FixedForm(StepFields[3])
         /\ result' = "none" )
       => c'.Tracks[Len(c.Tracks)].Index00 = <<PointOf(StepFields[3])>>
    /\ ( /\ IsOne(StepFields[2])
         /\ FixedForm(StepFields[3])
         /\ result' = "none" )
       => c'.Tracks[Len(c.Tracks)].Index01 = PointOf(StepFields[3])

C21_Rejected ==
    /\ FailedStep
    /\ err'.kind = "expected index number 0 or 1"
    /\ c' = c

C21_Step ==
    ( /\ CommandStep(TrackIndexCommand.Name)
      /\ NrParameters = 2
      /\ IsInteger(StepFields[2]) )
    => /\ C21_Stores
       /\ (~IsZero(StepFields[2]) /\ ~IsOne(StepFields[2])) => C21_Rejected

C21_IndexPointValue == [][C21_Step]_vars

\* C21, for the numbers an int can hold: an INDEX n MM:SS:FF line that
\* succeeds, n being 0 or 1, stores in the index n of the last track the index
\* point with timestamp MM * 60 + SS seconds and frame FF; an INDEX line with
\* a number other than 0 and 1 that an int can hold fails with "expected index
\* number 0 or 1" and stores nothing; one with a number out of that range
\* fails with "failed to parse index number" and stores nothing.
C21_StepInRange ==
    ( /\ CommandStep(TrackIndexCommand.Name)
      /\ NrParameters = 2
      /\ IsInteger(StepFields[2]) )
    => /\ C21_Stores
       /\ ( /\ ~IsZero(StepFields[2])
            /\ ~IsOne(StepFields[2])
            /\ HeldByInt(StepFields[2]) ) => C21_Rejected
       /\ ~HeldByInt(StepFields[2])
          => /\ FailedStep
             /\ err' = Err("failed to parse index number", <<StepFields[2]>>)
             /\ c' = c

C21_IndexPointValueInRange == [][C21_StepInRange]_vars

\* INDEX 00 01:59:74 and INDEX 01 02:03:04 on the same track
C21_Witness ==
    /\ Len(c.Tracks) = 1
    /\ c.Tracks[1].Index00 = <<IndexPoint(74, 119)>>
    /\ c.Tracks[1].Index01 = IndexPoint(4, 123)
    /\ result = "none"

----------------------------------------------------------------------------
\* C22: an INDEX 00 or INDEX 01 line for a declared track whose timestamp is
\* not of the form MM:SS:FF, two decimal digits each, fails with "error
\* parsing timestamp and frame" and assigns no index point.
C22_Step ==
    ( /\ CommandStep(TrackIndexCommand.Name)
      /\ NrParameters = 2
      /\ Len(c.Tracks) > 0
      /\ IsInteger(StepFields[2])
      /\ IsZero(StepFields[2]) \/ IsOne(StepFields[2])
      /\ ~FixedForm(StepFields[3]) )
    => /\ FailedStep
       /\ err'.kind = "error parsing timestamp and frame"
       /\ c' = c

C22_MalformedTimestamp == [][C22_Step]_vars

----------------------------------------------------------------------------
\* C23: every index point of a returned document, the Index00 and the Index01
\* of every track, has a frame and a timestamp that are 0 or more.
C23_IndexPointsNonNegative ==
    result = "doc" =>
        \A i \in 1..Len(Flattened(c)) :
            Flattened(c)[i].Frame >= 0 /\ Flattened(c)[i].Timestamp >= 0

----------------------------------------------------------------------------
\* C25: in the variant src/unnamed/part_000, validateTracks rejects every
\* track list whose index points, each track's Index00 if present and then
\* its Index01, have an adjacent pair that is not strictly increasing by
\* (timestamp, frame): a list it accepts has every adjacent pair, the last
\* one included, strictly increasing.
C25_VariantRejectsUnorderedPoints ==
    result = "valid tracks" => StrictlyIncreasing(indexPoints(c.Tracks))

----------------------------------------------------------------------------
\* C26: Parse is total.  A line that has a command, whatever its parameters
\* and whatever came before it, makes Parse go on or return an error; it
\* never makes it abort with a runtime fault.  In particular an INDEX command
\* with valid parameters before any TRACK command gives an error.
C26_Step ==
    ( /\ ScannedStep
      /\ ~Skipped(text')
      /\ Len(StepFields) > 0 )
    => result' # "panic"

C26_NoRuntimeFault == [][C26_Step]_vars

----------------------------------------------------------------------------
\* C27: only the track declared last can change.  No line removes a track or
\* changes a track before the last one; an INDEX or TITLE line adds no track,
\* so it changes at most fields of the last track; a TRACK line leaves every
\* track declared before it as it is, so the title, type, Index00 and Index01
\* of a track stay what they are once a later TRACK line succeeded; a FILE,
\* PERFORMER or REM line changes no track.
EarlierTracksKept(n) == \A i \in 1..n : c'.Tracks[i] = c.Tracks[i]

C27_Step ==
    /\ Len(c'.Tracks) >= Len(c.Tracks)
    /\ EarlierTracksKept(Len(c.Tracks) - 1)
    /\ (CommandStep(TrackIndexCommand.Name) \/ CommandStep(TitleCommand.Name))
           => Len(c'.Tracks) = Len(c.Tracks)
    /\ CommandStep(TrackCommand.Name) => EarlierTracksKept(Len(c.Tracks))
    /\ ( \/ CommandStep(FileCommand.Name)
         \/ CommandStep(PerformerCommand.Name)
         \/ CommandStep(RemCommand.Name) )
           => c'.Tracks = c.Tracks

C27_OnlyLastTrackMutable == [][C27_Step]_vars

C27_Witness ==
    /\ Len(c.Tracks) = 2
    /\ c.Tracks[1] =
           [Title |-> "Intro", Type |-> "AUDIO", Index00 |-> <<>>,
            Index01 |-> IndexPoint(50, 0)]
    /\ c.Tracks[2].Title = "Intro"
    /\ c.Tracks[2].Index01 = IndexPoint(0, 1)
    /\ result = "none"

====
